---- MODULE Spec2Model ----
(***************************************************************************)
(* Model of danaila_natural_convection.py: the time-stepping driver with   *)
(* its two solution strategies (nonlinear solve of F == 0, or the          *)
(* hand-linearized Newton loop on A == L), and the weak forms A, L and F.  *)
(*                                                                         *)
(* Discretisation used by the model.  A Function of the mixed space W is   *)
(* a record of degrees of freedom:                                         *)
(*   u     : [wall, int]      velocity on the four walls / in the interior *)
(*   p     : [wall, int]      pressure on the four walls / in the interior *)
(*   theta : [hot, cold, int] temperature on the wall x=0, on the wall     *)
(*                            x=1, and at the interior point x=1/2         *)
(* Temperatures are counted in units of 0.5 (theta_h = 0.5 is 1), gamma    *)
(* and norms in units such that 0.1*gamma is an integer, times in units    *)
(* of one time step size.  The finite-element backend (solve, norm) is     *)
(* external: solve returns any field that satisfies the Dirichlet          *)
(* conditions it is given, or fails.                                       *)
(***************************************************************************)
EXTENDS Integers, Sequences, FiniteSets

VARIABLES
    \* parameters (lines 41-85)
    linearize, gamma, final_time, num_time_steps, theta_h, theta_c,
    max_newton_iterations,
    \* functions of W (lines 115-123, 263)
    w, w_n, w_k, _w_w,
    \* time-stepping loop (lines 269-323)
    n, time, k, converged, iteration_count, norm_residual,
    velocity_file, pressure_file, temperature_file, progress,
    stdout, exception, pc,
    \* bookkeeping of the calls made in the current time step
    solve_calls, assign_calls, form_prev,
    \* evaluation of the weak forms at a sample point (lines 196-245)
    sample, val_A, val_L, val_F, val_dF

params == <<linearize, gamma, final_time, num_time_steps, theta_h, theta_c,
            max_newton_iterations>>

functions == <<w, w_n, w_k, _w_w>>

files == <<velocity_file, pressure_file, temperature_file>>

newton == <<k, converged, iteration_count, norm_residual>>

forms == <<sample, val_A, val_L, val_F, val_dF>>

vars == <<params, functions, n, time, newton, files, progress, stdout,
          exception, pc, solve_calls, assign_calls, form_prev, forms>>

----------------------------------------------------------------------------
\* Bounds of the model

MaxSteps == 2

MaxNewton == 2

\* values an interior degree of freedom of a solve's result may take
DofValues == {0, 1}

\* a variable that holds nothing yet (an unbound Python name)
None == "None"

----------------------------------------------------------------------------
\* Parameters

\* The physical and numerical parameters are assignments at the top of the
\* script; the run is modelled for the benchmark setting and for settings
\* that break gamma > 0, time_step_size > 0 or theta_h # theta_c.
\* final_time is a multiple of num_time_steps, so that the division of
\* line 81 is exact.
Settings ==
    { [gamma |-> 10, step |-> 1,  theta_h |-> 1, theta_c |-> -1],
      [gamma |-> 20, step |-> 1,  theta_h |-> 1, theta_c |-> -1],
      [gamma |-> 0,  step |-> 1,  theta_h |-> 1, theta_c |-> -1],
      [gamma |-> 10, step |-> 0,  theta_h |-> 1, theta_c |-> -1],
      [gamma |-> 10, step |-> -1, theta_h |-> 1, theta_c |-> -1],
      [gamma |-> 10, step |-> 1,  theta_h |-> 1, theta_c |-> 1] }

time_step_size == final_time \div num_time_steps

\* tolerance = 0.1*gamma
tolerance == gamma \div 10

----------------------------------------------------------------------------
\* Functions of the mixed space W

Abs(x) == IF x < 0 THEN -x ELSE x

\* Function(W): all degrees of freedom zero.  (x, y name fields below.)
Function ==
    [u |-> [wall |-> 0, int |-> 0],
     p |-> [wall |-> 0, int |-> 0],
     theta |-> [hot |-> 0, cold |-> 0, int |-> 0]]

\* split(f) / f.split(): the velocity, pressure and temperature of f
split(x) == <<x.u, x.p, x.theta>>

\* f - g
Minus(x, y) ==
    [u |-> [wall |-> x.u.wall - y.u.wall, int |-> x.u.int - y.u.int],
     p |-> [wall |-> x.p.wall - y.p.wall, int |-> x.p.int - y.p.int],
     theta |-> [hot |-> x.theta.hot - y.theta.hot,
                cold |-> x.theta.cold - y.theta.cold,
                int |-> x.theta.int - y.theta.int]]

\* norm(f, 'H1'): a norm on the degrees of freedom, zero only for f = 0
norm(x) ==
    Abs(x.u.wall) + Abs(x.u.int) + Abs(x.p.wall) + Abs(x.p.int)
    + Abs(x.theta.hot) + Abs(x.theta.cold) + Abs(x.theta.int)

\* theta_iv_exp at x = x2/2: theta_h + x*(theta_c - theta_h)
theta_iv_exp(x2) == theta_h + (x2 * (theta_c - theta_h)) \div 2

\* The Dirichlet conditions: homogeneous on the whole boundary for the
\* Newton increment, the physical ones for the nonlinear problem (velocity
\* and pressure zero on all walls, temperature on the hot and cold wall).
bc ==
    IF linearize
    THEN [u_wall |-> 0, p_wall |-> 0, theta_hot |-> 0, theta_cold |-> 0]
    ELSE [u_wall |-> 0, p_wall |-> 0, theta_hot |-> theta_h,
          theta_cold |-> theta_c]

\* what solve(..., bcs) may return: any field that satisfies bcs
Solutions(bcs) ==
    { [u |-> [wall |-> bcs.u_wall, int |-> ui],
       p |-> [wall |-> bcs.p_wall, int |-> pi],
       theta |-> [hot |-> bcs.theta_hot, cold |-> bcs.theta_cold, int |-> ti]] :
      ui \in DofValues, pi \in DofValues, ti \in DofValues }

\* The previous-step fields that the forms L and F reference: the
\* sub-functions of w_n, rebound to interpolated initial values when
\* linearize is set.
u_n ==
    IF linearize THEN [wall |-> 0, int |-> 0] ELSE split(w_n)[1]

p_n ==
    IF linearize THEN [wall |-> 0, int |-> 0] ELSE split(w_n)[2]

theta_n ==
    IF linearize
    THEN [hot |-> theta_iv_exp(0), cold |-> theta_iv_exp(2),
          int |-> theta_iv_exp(1)]
    ELSE split(w_n)[3]

----------------------------------------------------------------------------
\* Initial state: the script up to line 267

\* the forms are not evaluated yet: val_X is <<>>, and <<x>> once X has the
\* value x
InitForms ==
    /\ sample = None
    /\ val_A = <<>>
    /\ val_L = <<>>
    /\ val_F = <<>>
    /\ val_dF = <<>>

InitDriver ==
    /\ w = Function
    /\ w_n = Function
    /\ w_k = IF linearize THEN Function ELSE None
    /\ _w_w = Function
    /\ n = 0
    /\ time = None
    /\ k = None
    /\ converged = None
    /\ iteration_count = None
    /\ norm_residual = None
    /\ velocity_file = <<>>
    /\ pressure_file = <<>>
    /\ temperature_file = <<>>
    /\ progress = <<>>
    /\ stdout = <<>>
    /\ exception = None
    /\ pc = "for_n"
    /\ solve_calls = 0
    /\ assign_calls = 0
    /\ form_prev = <<>>

Init ==
    /\ linearize \in BOOLEAN
    /\ num_time_steps \in 1..MaxSteps
    /\ \E s \in Settings :
          /\ gamma = s.gamma
          /\ final_time = s.step * num_time_steps
          /\ theta_h = s.theta_h
          /\ theta_c = s.theta_c
    /\ max_newton_iterations \in
          IF linearize THEN 1..MaxNewton ELSE {None}
    /\ InitDriver
    /\ InitForms

----------------------------------------------------------------------------
\* The time-stepping loop

Raise(e) ==
    /\ exception' = e
    /\ pc' = "raised"

\* lines 269-279: the head of the loop over n
BeginTimeStep ==
    /\ pc = "for_n"
    /\ n < num_time_steps
    /\ time' = n * time_step_size
    /\ solve_calls' = 0
    /\ assign_calls' = 0
    /\ IF linearize
       THEN /\ converged' = FALSE
            /\ iteration_count' = 0
            /\ k' = 0
            /\ stdout' = <<"Iterating Newton method">>
            /\ pc' = "newton_solve"
       ELSE /\ UNCHANGED <<converged, iteration_count, k, stdout>>
            /\ pc' = "nonlinear_solve"
    /\ UNCHANGED <<params, functions, n, norm_residual, files, progress,
                   exception, form_prev, forms>>

\* line 269: range(num_time_steps) is exhausted
EndOfRun ==
    /\ pc = "for_n"
    /\ n >= num_time_steps
    /\ pc' = "done"
    /\ UNCHANGED <<params, functions, n, time, newton, files, progress,
                   stdout, exception, solve_calls, assign_calls, form_prev,
                   forms>>

\* line 283: solve(A == L, _w_w, bc)
NewtonSolve ==
    /\ pc = "newton_solve"
    /\ solve_calls' = solve_calls + 1
    /\ form_prev' = <<u_n, theta_n>>
    /\ \/ /\ _w_w' \in Solutions(bc)
          /\ pc' = "newton_update"
          /\ UNCHANGED exception
       \/ /\ Raise("RuntimeError")
          /\ UNCHANGED _w_w
    /\ UNCHANGED <<params, w, w_n, w_k, n, time, newton, files, progress,
                   stdout, assign_calls, forms>>

\* A faulty variant of NewtonUpdate: w is the same object as w_k, so the
\* update shows in w.
NewtonUpdateAliased ==
    /\ pc = "newton_update"
    /\ w_k' = Minus(w_k, _w_w)
    /\ w' = Minus(w_k, _w_w)
    /\ assign_calls' = assign_calls + 1
    /\ pc' = "newton_test"
    /\ UNCHANGED <<params, w_n, _w_w, n, time, newton, files, progress,
                   stdout, exception, solve_calls, form_prev, forms>>

\* line 285: w_k.assign(w_k - _w_w)
NewtonUpdate ==
    /\ pc = "newton_update"
    /\ w_k' = Minus(w_k, _w_w)
    /\ assign_calls' = assign_calls + 1
    /\ pc' = "newton_test"
    /\ UNCHANGED <<params, w, w_n, _w_w, n, time, newton, files, progress,
                   stdout, exception, solve_calls, form_prev, forms>>

\* lines 287-299: the norm of the increment and the convergence test
NewtonTest ==
    /\ pc = "newton_test"
    /\ norm_residual' = norm(_w_w)
    /\ IF norm(_w_w) < tolerance
       THEN /\ converged' = TRUE
            /\ iteration_count' = k + 1
            /\ stdout' = <<"Converged after", k, "iterations">>
            /\ k' = k
            /\ pc' = "assert"
       ELSE /\ stdout' = <<"H1 norm residual", norm(_w_w)>>
            /\ UNCHANGED <<converged, iteration_count>>
            /\ IF k + 1 < max_newton_iterations
               THEN k' = k + 1 /\ pc' = "newton_solve"
               ELSE k' = k /\ pc' = "assert"
    /\ UNCHANGED <<params, functions, n, time, files, progress, exception,
                   solve_calls, assign_calls, form_prev, forms>>

\* A faulty variant of AssertionFails: the assertion is not enforced and the
\* unconverged iterate is taken as the step's result.
AssertionIgnored ==
    /\ pc = "assert"
    /\ ~converged
    /\ w' = w_k
    /\ pc' = "save"
    /\ UNCHANGED <<params, w_n, w_k, _w_w, n, time, newton, files, progress,
                   stdout, exception, solve_calls, assign_calls, form_prev,
                   forms>>

\* line 301: assert(converged) fails
AssertionFails ==
    /\ pc = "assert"
    /\ ~converged
    /\ Raise("AssertionError")
    /\ UNCHANGED <<params, functions, n, time, newton, files, progress,
                   stdout, solve_calls, assign_calls, form_prev, forms>>

\* lines 301-303: assert(converged) passes; w.assign(w_k)
AssignSolution ==
    /\ pc = "assert"
    /\ converged
    /\ w' = w_k
    /\ pc' = "save"
    /\ UNCHANGED <<params, w_n, w_k, _w_w, n, time, newton, files, progress,
                   stdout, exception, solve_calls, assign_calls, form_prev,
                   forms>>

\* line 307: solve(F == 0, w, bc)
NonlinearSolve ==
    /\ pc = "nonlinear_solve"
    /\ solve_calls' = solve_calls + 1
    /\ form_prev' = <<u_n, theta_n>>
    /\ \/ /\ w' \in Solutions(bc)
          /\ pc' = "save"
          /\ UNCHANGED exception
       \/ /\ Raise("RuntimeError")
          /\ UNCHANGED w
    /\ UNCHANGED <<params, w_n, w_k, _w_w, n, time, newton, files, progress,
                   stdout, assign_calls, forms>>

\* lines 310-317: the three fields of w are written with the time
SaveSolution ==
    /\ pc = "save"
    /\ velocity_file' = Append(velocity_file, <<split(w)[1], time>>)
    /\ pressure_file' = Append(pressure_file, <<split(w)[2], time>>)
    /\ temperature_file' = Append(temperature_file, <<split(w)[3], time>>)
    /\ pc' = "update_previous"
    /\ UNCHANGED <<params, functions, n, time, newton, progress, stdout,
                   exception, solve_calls, assign_calls, form_prev, forms>>

\* line 320: w_n.assign(w)
UpdatePreviousSolution ==
    /\ pc = "update_previous"
    /\ w_n' = w
    /\ pc' = "show_progress"
    /\ UNCHANGED <<params, w, w_k, _w_w, n, time, newton, files, progress,
                   stdout, exception, solve_calls, assign_calls, form_prev,
                   forms>>

\* line 323: progress.update(time / final_time), then the next n
ShowProgress ==
    /\ pc = "show_progress"
    /\ IF final_time = 0
       THEN /\ Raise("ZeroDivisionError")
            /\ UNCHANGED <<progress, n>>
       ELSE /\ progress' = Append(progress, <<time, final_time>>)
            /\ n' = n + 1
            /\ pc' = "for_n"
            /\ UNCHANGED exception
    /\ UNCHANGED <<params, functions, time, newton, files, stdout,
                   solve_calls, assign_calls, form_prev, forms>>

Next ==
    \/ BeginTimeStep
    \/ EndOfRun
    \/ NewtonSolve
    \/ NewtonUpdate
    \/ NewtonTest
    \/ AssertionFails
    \/ AssignSolution
    \/ NonlinearSolve
    \/ SaveSolution
    \/ UpdatePreviousSolution
    \/ ShowProgress

Spec == Init /\ [][Next]_vars

----------------------------------------------------------------------------
\* The weak forms (lines 178-245), evaluated at one point of the domain.
\*
\* The integrands are polynomials in the values and first derivatives of the
\* fields at a point, so two forms are the same form when their integrands
\* agree at every sample of a grid with three values per argument.  In the
\* model a field at the sample point is a record [val, grad] (in one space
\* dimension, where div, grad and sym(grad) coincide and g is its vertical
\* component); the sample also carries the physical coefficients.

MaxVal == 1

FieldValues == (-MaxVal)..MaxVal

PreviousValues == {0, 1}

PointValues(vals, grads) == [val : vals, grad : grads]

\* the test and trial functions: the forms are linear in them, so the unit
\* ones suffice
UnitTriples ==
    LET zero == [val |-> 0, grad |-> 0]
        one  == [val |-> 1, grad |-> 0]
        done == [val |-> 0, grad |-> 1]
    IN  { <<one, zero, zero>>, <<done, zero, zero>>, <<zero, one, zero>>,
          <<zero, zero, one>>, <<zero, zero, done>> }

\* coefficient values for which Ra/(Pr*Re*Re), K/Pr and 1/dt are integers
Coefficients ==
    { [Ra |-> 6,  Pr |-> 2, Re |-> 1, K |-> 4, mu |-> 3, g |-> -1],
      [Ra |-> 12, Pr |-> 3, Re |-> 2, K |-> 3, mu |-> 1, g |-> -1] }

Samples ==
    [ u_k : PointValues(FieldValues, FieldValues),
      p_k : PointValues(FieldValues, {0}),
      theta_k : PointValues(FieldValues, FieldValues),
      u_n : PointValues(PreviousValues, {0}),
      theta_n : PointValues(PreviousValues, {0}),
      test : UnitTriples,
      trial : UnitTriples,
      coefficients : Coefficients ]

\* the fields of the forms at the sample point
at_u_k == sample.u_k

at_p_k == sample.p_k

at_theta_k == sample.theta_k

at_u_n == sample.u_n

at_theta_n == sample.theta_n

u_w == sample.trial[1]

p_w == sample.trial[2]

theta_w == sample.trial[3]

v == sample.test[1]

q == sample.test[2]

phi == sample.test[3]

Ra == sample.coefficients.Ra

Pr == sample.coefficients.Pr

Re == sample.coefficients.Re

K == sample.coefficients.K

mu == sample.coefficients.mu

g == sample.coefficients.g

dt == time_step_size

\* pointwise algebra
Val(x) == x.val

div(x) == x.grad

grad(x) == x.grad

sym(x) == x

dot(x, y) == x * y

inner(x, y) == x * y

Plus(x, y) == [val |-> x.val + y.val, grad |-> x.grad + y.grad]

Less(x, y) == [val |-> x.val - y.val, grad |-> x.grad - y.grad]

\* lines 197-199
f_B(_theta) == ((Val(_theta) * Ra) \div (Pr * Re * Re)) * g

\* lines 202-208
D(_u) == sym(grad(_u))

a(_mu, _u, _v) == 2 * _mu * inner(D(_u), D(_v))

\* lines 211-213
b(_u, _q) == -div(_u) * Val(_q)

\* lines 216-218
c(_w, _z, _v) == dot(div(_w) * Val(_z), Val(_v))

\* line 223
df_B_dtheta == (Ra \div (Pr * Re * Re)) * g

\* A faulty variant of A: the product rule is applied to the first factor
\* of c(u, u, v) only.
A_HalfProductRule ==
    LET u_k == at_u_k
        p_k == at_p_k
        theta_k == at_theta_k
    IN  b(u_w, q) - gamma * Val(p_w) * Val(q)
        + dot(Val(u_w), Val(v)) \div dt + c(u_w, u_k, v)
            + a(mu, u_w, v) + b(v, p_w)
        - dot(Val(theta_w) * df_B_dtheta, Val(v))
        + (Val(theta_w) * Val(phi)) \div dt
            - dot(Val(u_k), grad(phi)) * Val(theta_w)
            - dot(Val(u_w), grad(phi)) * Val(theta_k)
            + dot((K \div Pr) * grad(theta_w), grad(phi))

\* lines 225-230: the tangent form of the Newton linearized system
A ==
    LET u_k == at_u_k
        p_k == at_p_k
        theta_k == at_theta_k
    IN  b(u_w, q) - gamma * Val(p_w) * Val(q)
        + dot(Val(u_w), Val(v)) \div dt + c(u_w, u_k, v) + c(u_k, u_w, v)
            + a(mu, u_w, v) + b(v, p_w)
        - dot(Val(theta_w) * df_B_dtheta, Val(v))
        + (Val(theta_w) * Val(phi)) \div dt
            - dot(Val(u_k), grad(phi)) * Val(theta_w)
            - dot(Val(u_w), grad(phi)) * Val(theta_k)
            + dot((K \div Pr) * grad(theta_w), grad(phi))

\* lines 232-236: the residual form of the Newton linearized system
L ==
    LET u_k == at_u_k
        p_k == at_p_k
        theta_k == at_theta_k
    IN  b(u_k, q) + gamma * Val(p_k) * Val(q)
        + dot(Val(u_k) - Val(at_u_n), Val(v)) \div dt + c(u_k, u_k, v)
            + a(mu, u_k, v) + b(v, p_k) - dot(f_B(theta_k), Val(v))
        + ((Val(theta_k) - Val(at_theta_n)) * Val(phi)) \div dt
            - dot(Val(u_k), grad(phi)) * Val(theta_k)
            - dot((K \div Pr) * grad(theta_k), grad(phi))

\* lines 240-245: the nonlinear form, as a function of the unknown w
F(u, p, theta) ==
    b(u, q) - gamma * Val(p) * Val(q)
    + dot(Val(u), Val(v)) \div dt + c(u, u, v) + a(mu, u, v) + b(v, p)
        - dot(Val(at_u_n), Val(v)) \div dt
    - dot(f_B(theta), Val(v))
    + (Val(theta) * Val(phi)) \div dt - dot(Val(u), grad(phi)) * Val(theta)
        + dot((K \div Pr) * grad(theta), grad(phi))
        - (Val(at_theta_n) * Val(phi)) \div dt

\* The tangent that the nonlinear solve of line 307 derives from F: the
\* derivative of F at (u, p, theta) in the direction (du, dp, dtheta).  F is
\* of degree two in w, so the central difference is the derivative.
derivative(u, p, theta, du, dp, dtheta) ==
    ( F(Plus(u, du), Plus(p, dp), Plus(theta, dtheta))
      - F(Less(u, du), Less(p, dp), Less(theta, dtheta)) ) \div 2

\* lines 221-236, the branch with linearize set: A and L are built
AssembleLinearized ==
    /\ val_A = <<>>
    /\ val_A' = <<A>>
    /\ val_L' = <<L>>
    /\ UNCHANGED <<params, functions, n, time, newton, files, progress,
                   stdout, exception, pc, solve_calls, assign_calls,
                   form_prev, sample, val_F, val_dF>>

\* lines 238-245, the branch with linearize unset: F is built (here at the
\* iterate w_k) and its tangent derived
AssembleNonlinear ==
    /\ val_F = <<>>
    /\ val_F' = <<F(at_u_k, at_p_k, at_theta_k)>>
    /\ val_dF' =
          <<derivative(at_u_k, at_p_k, at_theta_k, u_w, p_w, theta_w)>>
    /\ UNCHANGED <<params, functions, n, time, newton, files, progress,
                   stdout, exception, pc, solve_calls, assign_calls,
                   form_prev, sample, val_A, val_L>>

\* The forms of both branches are evaluated at the same sample, for the
\* benchmark setting of the driver's parameters; time_step_size is the unit
\* of time, so the divisions by dt are exact.
InitSample ==
    /\ linearize = TRUE
    /\ num_time_steps = 1
    /\ final_time = 1
    /\ gamma = 10
    /\ theta_h = 1
    /\ theta_c = -1
    /\ max_newton_iterations = 1
    /\ InitDriver
    /\ sample \in Samples
    /\ val_A = <<>>
    /\ val_L = <<>>
    /\ val_F = <<>>
    /\ val_dF = <<>>

NextForms ==
    \/ AssembleLinearized
    \/ AssembleNonlinear

SpecForms == InitSample /\ [][NextForms]_vars

----------------------------------------------------------------------------
\* Properties

\* the invariant the parameters are documented to satisfy
ParametersValid == gamma > 0 /\ time_step_size > 0 /\ theta_h # theta_c

\* the state that the time step before step n produced, read from the three
\* files (for n >= 1)
SavedBefore(i) ==
    [u |-> velocity_file[i][1], p |-> pressure_file[i][1],
     theta |-> temperature_file[i][1]]

\* the state the script holds in w and w_n when time step n begins
PreviousResult == IF n = 0 THEN Function ELSE SavedBefore(n)

\* a solve of the current time step has been called
SolveCalled == solve_calls > 0

\* the time step's solve has returned its result in w
StepSolved == pc \in {"save", "update_previous", "show_progress"}

\* the initial velocity and temperature: zero velocity with the linear
\* wall-to-wall temperature profile when linearize is set (lines 166-175),
\* the zero field of Function(W) otherwise (line 117)
InitialCondition ==
    IF linearize
    THEN <<[wall |-> 0, int |-> 0],
           [hot |-> theta_h, cold |-> theta_c,
            int |-> (theta_h + theta_c) \div 2]>>
    ELSE <<split(Function)[1], split(Function)[3]>>

\* C1: in both strategies, the previous-step velocity and temperature that
\* enter the form solved at step n >= 1 are the fields of the state w that
\* step n-1 produced; at step 0 they are the initial condition.  (Stated
\* for parameters that satisfy the documented invariant.)
C1_PreviousStepEntersForm ==
    (ParametersValid /\ SolveCalled /\ pc \notin {"for_n", "done"}) =>
        form_prev = IF n = 0
                    THEN InitialCondition
                    ELSE <<split(SavedBefore(n))[1], split(SavedBefore(n))[3]>>

\* C2: after any converged time step, in either strategy, w has temperature
\* theta_h on the hot wall, theta_c on the cold wall and zero velocity on
\* the walls.  (Stated for parameters that satisfy the documented
\* invariant.)
C2_BoundaryValuesOfResult ==
    (ParametersValid /\ StepSolved) =>
        /\ w.theta.hot = theta_h
        /\ w.theta.cold = theta_c
        /\ w.u.wall = 0

\* the Newton loop of the current step has ended without convergence
NewtonExhausted ==
    /\ linearize
    /\ pc \in {"assert", "raised", "save", "update_previous",
               "show_progress", "for_n", "done"}
    /\ (pc \in {"for_n", "done"} => n > 0)
    /\ exception # "RuntimeError"
    /\ exception # "ZeroDivisionError"
    /\ ~converged

\* C3: when no iteration of a time step n meets the tolerance, the run
\* aborts at that step with a failed assertion: w and w_n still hold the
\* result of step n-1, no file has a snapshot of step n, progress has not
\* been reported for step n, and nothing runs after the abort.
C3_ExhaustionAborts ==
    NewtonExhausted =>
        /\ pc \in {"assert", "raised"}
        /\ solve_calls = max_newton_iterations
        /\ norm_residual >= tolerance
        /\ w = PreviousResult
        /\ w_n = PreviousResult
        /\ Len(velocity_file) = n
        /\ Len(pressure_file) = n
        /\ Len(temperature_file) = n
        /\ Len(progress) = n
        /\ n < num_time_steps
        /\ (pc = "raised" => exception = "AssertionError" /\ ~ENABLED Next)

\* a run aborted by the assertion in a time step after the first, with the
\* iterate moved away from w
C3_Witness ==
    /\ exception = "AssertionError"
    /\ n >= 1
    /\ w_k # w
    /\ Len(velocity_file) = n

\* C4: the residual form L is the value of F at the iterate w_k.
C4_ResidualIsFAtIterate ==
    (val_L # <<>> /\ val_F # <<>>) => val_L = val_F

\* C5: the tangent form A is the derivative of F with respect to w at w_k
\* in the direction (u_w, p_w, theta_w).
C5_TangentIsDerivativeOfF ==
    (val_A # <<>> /\ val_dF # <<>>) => val_A = val_dF

\* both forms evaluated where the second product-rule term of c(u, u, v)
\* contributes, with previous-step values present
C5_Witness ==
    /\ val_A # <<>>
    /\ val_dF # <<>>
    /\ div(at_u_k) # 0
    /\ Val(u_w) = 1
    /\ Val(v) = 1
    /\ Val(at_u_n) # 0
    /\ val_A[1] = val_dF[1]
    /\ val_A[1] # 0

\* C6: a run that completes without error writes exactly num_time_steps
\* snapshots to each file, the n-th tagged n*time_step_size, with strictly
\* increasing tags, each holding the field of the w of step n, written
\* before w_n is overwritten.
C6_SnapshotsOfCompletedRun ==
    /\ pc = "update_previous" =>
          /\ SavedBefore(n + 1) = w
          /\ w_n = PreviousResult
    /\ pc = "done" =>
          /\ Len(velocity_file) = num_time_steps
          /\ Len(pressure_file) = num_time_steps
          /\ Len(temperature_file) = num_time_steps
          /\ \A i \in 1..num_time_steps :
                /\ velocity_file[i][2] = (i - 1) * time_step_size
                /\ pressure_file[i][2] = (i - 1) * time_step_size
                /\ temperature_file[i][2] = (i - 1) * time_step_size
          /\ \A i \in 1..(num_time_steps - 1) :
                /\ velocity_file[i][2] < velocity_file[i + 1][2]
                /\ pressure_file[i][2] < pressure_file[i + 1][2]
                /\ temperature_file[i][2] < temperature_file[i + 1][2]

\* C7: with parameters that violate gamma > 0, time_step_size > 0 or
\* theta_h # theta_c no solve is ever called.
C7_InvalidParametersRejected ==
    ~ParametersValid => (n = 0 /\ ~SolveCalled)

\* C8: at the abort of an exhausted Newton loop the iteration count is the
\* number of iterations performed and the residual is the norm of the last
\* increment.  The failed assertion carries no message, so what the
\* program holds at the abort is all there is to report.  (Stated for
\* parameters that satisfy the documented invariant.)
C8_ExhaustionReported ==
    (ParametersValid /\ exception = "AssertionError") =>
        /\ iteration_count = max_newton_iterations
        /\ norm_residual = norm(_w_w)

\* C9: the loop stops at the first iteration k whose increment norm is
\* below the tolerance, after k+1 solves and k+1 updates, at most
\* max_newton_iterations, and the iteration count recorded and reported is
\* k+1.  (Stated for parameters that satisfy the documented invariant.)
C9_ConvergedIterationCount ==
    (ParametersValid /\ linearize /\ pc = "assert" /\ converged) =>
        /\ norm_residual < tolerance
        /\ solve_calls = k + 1
        /\ assign_calls = k + 1
        /\ k + 1 <= max_newton_iterations
        /\ iteration_count = k + 1
        /\ stdout = <<"Converged after", k + 1, "iterations">>

\* C10: w_k is never reset: it changes only by subtracting the increment,
\* which leaves w and w_n unchanged; w changes only by the copy of w_k on
\* convergence and w_n only by the copy of w at the end of a step; and
\* when a time step n >= 1 begins, w_k, w and w_n all hold the result of
\* step n-1.
C10_IterateCarriedOver ==
    [][ linearize =>
          /\ (w_k' # w_k =>
                /\ pc = "newton_update"
                /\ w_k' = Minus(w_k, _w_w)
                /\ w' = w
                /\ w_n' = w_n)
          /\ (w' # w => (pc = "assert" /\ converged /\ w' = w_k))
          /\ (w_n' # w_n => (pc = "update_previous" /\ w_n' = w))
          /\ ((pc' = "newton_solve" /\ solve_calls' = 0 /\ n' >= 1) =>
                /\ w_k' = SavedBefore(n)'
                /\ w' = w_k'
                /\ w_n' = w_k') ]_vars

\* in a time step after the first, the iterate has been updated and differs
\* from w and w_n, which hold the result of the step before
C10_Witness ==
    /\ linearize
    /\ n >= 1
    /\ pc = "newton_test"
    /\ w_k # w
    /\ w = w_n
    /\ w = SavedBefore(n)
    /\ w # Function

====
